---- MODULE Spec2Model ----
(***************************************************************************)
(* A model of ColorHunter (src/ColorHunter.py): the palette extraction     *)
(* pipeline (extract_colors, centerize_histogram, sort_colors), the        *)
(* image list / image_data_list pairing kept by the UI callbacks, and the  *)
(* tooltip handling of the colour swatches.                                *)
(*                                                                         *)
(* Four specifications share the variables:                                *)
(*   SpecSort    - sort_colors applied to bounded colour lists             *)
(*   SpecExtract - extract_colors applied to bounded images                *)
(*   SpecUI      - the callbacks of the image list                         *)
(*   SpecSwatch  - the mouse events of the swatches of a displayed palette *)
(***************************************************************************)
EXTENDS Integers, Sequences, FiniteSets, TLC

----------------------------------------------------------------------------
(* Bounds of the model. *)

MaxLen == 3          \* longest colour list handed to sort_colors
MaxH == 6            \* most rows of an image
MaxW == 3            \* most columns of an image
MaxColours == 3      \* most distinct pixel colours of an image
MaxItems == 2        \* most items in the image list
MaxSwatches == 2     \* most swatches on color_display in SpecSwatch
MaxTipGrowth == 1    \* a tooltip that grew by more than this is not copied again

----------------------------------------------------------------------------
(* Small helpers. *)

Max3(a, b, c) == IF a >= b /\ a >= c THEN a ELSE IF b >= c THEN b ELSE c

Indices(s) == [i \in 1..Len(s) |-> i]

Count(x, s) == Cardinality({i \in 1..Len(s) : s[i] = x})

SeqsUpTo(S, n) == UNION {[1..k -> S] : k \in 0..n}

----------------------------------------------------------------------------
(* sort_colors                                                             *)

\* The colours the sort is exercised on: every bucket, every kind of tie
\* between channels, and two pairs of distinct blue-dominant colours with
\* the same exact luminance (6.423 and 7.825).
ColorSet ==
    { <<200, 100, 50>>, <<5, 5, 5>>, <<7, 7, 0>>, <<9, 0, 9>>,
      <<0, 8, 8>>, <<12, 200, 7>>,
      <<0, 9, 10>>, <<15, 0, 17>>, <<0, 11, 12>>, <<15, 2, 19>> }

\* 0.299*R + 0.587*G + 0.114*B is evaluated in IEEE double arithmetic.  The
\* exact value is Exact/1000; the computed double is the double nearest to
\* the exact value plus FloatErr ulps.  Over all 2^24 colours the computed
\* value is strictly increasing in the exact value, so the error only
\* decides comparisons between colours of equal exact luminance; it is
\* tabulated for the colours of ColorSet where it is not 0.
FloatErr(color) ==
    IF color \in { <<9, 0, 9>>, <<12, 200, 7>>, <<15, 2, 19>>, <<255, 0, 0>> }
    THEN -1 ELSE 0

luminance(color) ==
    << 299 * color[1] + 587 * color[2] + 114 * color[3], FloatErr(color) >>

\* k1 < k2 on computed luminances
KeyLess(k1, k2) == k1[1] < k2[1] \/ (k1[1] = k2[1] /\ k1[2] < k2[2])

\* the chain with the green test first
bucketGreenFirst(color) ==
    LET max_color == Max3(color[1], color[2], color[3])
    IN  IF color[2] = max_color THEN "greens"
        ELSE IF color[1] = max_color THEN "reds"
        ELSE IF color[3] = max_color THEN "blues"
        ELSE "rests"

\* max(*color) and the if/elif chain of the loop body
bucket(color) ==
    LET max_color == Max3(color[1], color[2], color[3])
    IN  IF color[1] = max_color THEN "reds"
        ELSE IF color[2] = max_color THEN "greens"
        ELSE IF color[3] = max_color THEN "blues"
        ELSE "rests"

\* insertion for a descending order (sorted(..., reverse=True))
InsertDescending(cl, s, x) ==
    LET k == Cardinality({i \in 1..Len(s) :
                 ~KeyLess(luminance(cl[s[i]]), luminance(cl[x]))})
    IN  SubSeq(s, 1, k) \o <<x>> \o SubSeq(s, k + 1, Len(s))

\* Insertion keeping x after every element whose key is <= the key of x:
\* sorted() is stable, and x comes later in the input than all of s.
Insert(cl, s, x) ==
    LET k == Cardinality({i \in 1..Len(s) :
                 ~KeyLess(luminance(cl[x]), luminance(cl[s[i]]))})
    IN  SubSeq(s, 1, k) \o <<x>> \o SubSeq(s, k + 1, Len(s))

\* a sort that is not stable: an element goes before those of equal key
RECURSIVE sortedUnstable(_, _)
sortedUnstable(cl, s) ==
    IF s = <<>> THEN <<>>
    ELSE LET t == sortedUnstable(cl, SubSeq(s, 1, Len(s) - 1))
             x == s[Len(s)]
             k == Cardinality({i \in 1..Len(t) :
                      KeyLess(luminance(cl[t[i]]), luminance(cl[x]))})
         IN  SubSeq(t, 1, k) \o <<x>> \o SubSeq(t, k + 1, Len(t))

\* sorted(s, key=luminance) on a sequence s of positions of the list cl
RECURSIVE sorted(_, _)
sorted(cl, s) ==
    IF s = <<>> THEN <<>>
    ELSE Insert(cl, sorted(cl, SubSeq(s, 1, Len(s) - 1)), s[Len(s)])

\* the positions of cl that the loop appends to the bucket b, in list order
BucketOf(cl, b) == SelectSeq(Indices(cl), LAMBDA i : bucket(cl[i]) = b)

\* [*reds, *greens, *reds, *rests]
SortOrderRedTwice(cl) ==
    sorted(cl, BucketOf(cl, "reds")) \o sorted(cl, BucketOf(cl, "greens"))
      \o sorted(cl, BucketOf(cl, "reds")) \o sorted(cl, BucketOf(cl, "rests"))

\* [*reds, *greens, *blues, *rests] as positions of the input list
sort_order(cl) ==
    sorted(cl, BucketOf(cl, "reds")) \o sorted(cl, BucketOf(cl, "greens"))
      \o sorted(cl, BucketOf(cl, "blues")) \o sorted(cl, BucketOf(cl, "rests"))

sort_colors(cl) == LET p == sort_order(cl) IN [i \in 1..Len(p) |-> cl[p[i]]]


----------------------------------------------------------------------------
(* extract_colors and centerize_histogram                                  *)

RECURSIVE Pow(_, _)
Pow(b, e) == IF e = 0 THEN 1 ELSE b * Pow(b, e - 1)

RECURSIVE SumOver(_, _)
SumOver(S, f) ==
    IF S = {} THEN 0
    ELSE LET x == CHOOSE y \in S : TRUE IN f[x] + SumOver(S \ {x}, f)

Min(a, b) == IF a <= b THEN a ELSE b

\* the pixel colours the images are painted with
Palette == << <<200, 100, 50>>, <<12, 200, 7>>, <<0, 0, 255>>, <<255, 0, 0>> >>

\* The images extract_colors is exercised on: h rows of w pixels in m
\* colours, row i spelling i-1 in base m (a single row or m = 1 is a
\* solid-colour image, a single column cycles through the m colours).
TestImage(h, w, m) ==
    [i \in 1..h |-> [j \in 1..w |-> Palette[(((i - 1) \div Pow(m, j - 1)) % m) + 1]]]

Images ==
    {TestImage(h, w, m) : h \in 1..MaxH, w \in 1..MaxW, m \in 1..MaxColours}

\* np.unique(image, axis=0): the distinct sub-arrays along axis 0, which are
\* the distinct rows of the image
unique_colors(img) == {img[i] : i \in 1..Len(img)}

\* image.reshape((rows * cols, 3)): the pixels in row-major order
image_2d(img) ==
    LET w == Len(img[1])
    IN  [n \in 1..(Len(img) * w) |-> img[((n - 1) \div w) + 1][((n - 1) % w) + 1]]

\* 5 + len(unique_colors) // 6, limited to 5..24
ClustersNum(img) ==
    LET n == 5 + (Cardinality(unique_colors(img)) \div 6)
    IN  IF n < 2 THEN 5 ELSE IF n > 24 THEN 24 ELSE n

\* A real number sum/n, kept exactly.
Mean(px, S) ==
    [sum |-> << SumOver(S, [i \in S |-> px[i][1]]),
                SumOver(S, [i \in S |-> px[i][2]]),
                SumOver(S, [i \in S |-> px[i][3]]) >>,
     n   |-> Cardinality(S)]

\* KMeans(n_clusters=k).fit(px): what the clusterer may return.  Equal
\* pixels get the same label (a label is the nearest centre of the pixel);
\* the centre of a cluster is the mean of the pixels labelled with it, and a
\* cluster without pixels sits on a pixel colour of the image.
FitResults(px, k) ==
    LET cols == {px[i] : i \in 1..Len(px)}
    IN  { [labels_ |-> [i \in 1..Len(px) |-> a[px[i]]],
           cluster_centers_ |->
              [c \in 1..k |->
                 LET S == {i \in 1..Len(px) : a[px[i]] = c - 1}
                 IN  IF S # {} THEN Mean(px, S) ELSE [sum |-> e, n |-> 1]]]
          : a \in [cols -> 0..(k - 1)], e \in cols }

\* centerize_histogram: np.histogram over the bin edges 0..m, where m is
\* the number of distinct labels; bin b holds the labels in [b-1, b), the
\* last bin the labels in [m-1, m]; labels above m fall in no bin.  A weight
\* is the pair <<count, hist.sum()>> standing for count / hist.sum() (a sum
\* of 0 makes every weight NaN).
centerize_histogram(labels_, k) ==
    LET m == Cardinality({labels_[i] : i \in 1..Len(labels_)})
        cnt == [b \in 1..m |->
                  Cardinality({i \in 1..Len(labels_) :
                      labels_[i] = b - 1 \/ (b = m /\ labels_[i] = m)})]
        total == SumOver(1..m, cnt)
    IN  [b \in 1..m |-> << cnt[b], total >>]

\* rounding to the nearest integer
IntNearest(sum, n) == (2 * sum + n) \div (2 * n)

\* int(c) of a non-negative real: the fraction is cut off
IntOf(sum, n) == sum \div n

\* [[int(c) for c in color[1]] for color in zip(hist, clt.cluster_centers_)]
ColorHistogram(hist_, centers) ==
    [i \in 1..Min(Len(hist_), Len(centers)) |->
        [ch \in 1..3 |-> IntOf(centers[i].sum[ch], centers[i].n)]]

\* what extract_colors returns for the fitted clusterer
ExtractResult(img, fit) ==
    sort_colors(ColorHistogram(centerize_histogram(fit.labels_, ClustersNum(img)),
                               fit.cluster_centers_))

----------------------------------------------------------------------------
(* The image list callbacks and the swatches.                              *)

\* Text is a sequence of characters.
DigitChar == << "0", "1", "2", "3", "4", "5", "6", "7", "8", "9" >>

RECURSIVE IntStr(_)
IntStr(n) ==
    IF n < 10 THEN << DigitChar[n + 1] >>
    ELSE IntStr(n \div 10) \o << DigitChar[(n % 10) + 1] >>

\* str(color) of a list of three ints: "[r, g, b]"
Str(color) ==
    << "[" >> \o IntStr(color[1]) \o << ",", " " >> \o IntStr(color[2])
       \o << ",", " " >> \o IntStr(color[3]) \o << "]" >>

\* sub in text
Contains(text, sub) ==
    \E i \in 0..(Len(text) - Len(sub)) : SubSeq(text, i + 1, i + Len(sub)) = sub

Copied == << "c", "o", "p", "i", "e", "d" >>
CopiedDot == Copied \o << "." >>
SpaceCopiedDot == << " " >> \o CopiedDot

\* text[:-k]
DropLast(text, k) == SubSeq(text, 1, Len(text) - k)

\* The files the user can pick: one that cannot be decoded, a single
\* pixel, a solid-colour column and a two-colour column of five pixels.
Files == {"broken.png", "dot.png", "solid.png", "two.png"}

\* cv2.imread returns None for these and cvtColor then raises
Unreadable == {"broken.png"}

\* cv2.imread + cvtColor of a readable file: the decoded image
Decode(path) ==
    CASE path = "broken.png" -> << >>
      [] path = "dot.png"    -> TestImage(1, 1, 1)
      [] path = "solid.png"  -> TestImage(5, 1, 1)
      [] path = "two.png"    -> TestImage(5, 1, 2)

\* the swatches update_color_pallet builds, one per colour, each with the
\* text str(color) as its tooltip
Swatches(color_list_) ==
    [i \in 1..Len(color_list_) |->
        [color |-> color_list_[i], tip |-> Str(color_list_[i])]]

\* the items of the list when add_image runs: the new item is the last one
ItemsAfterAdd(its, path) == Append(its, path)

\* the items of the list after the item at row r is deleted
ItemsAfterDelete(its, r) == SubSeq(its, 1, r) \o SubSeq(its, r + 2, Len(its))

\* the row the list makes current after removing the item at row r
RowAfterDelete(row, r, n) ==
    IF n = 0 THEN -1
    ELSE IF row > r \/ row >= n THEN row - 1
    ELSE row

----------------------------------------------------------------------------
VARIABLES
    color_list,     \* the list object passed to sort_colors
    arg_list,       \* its contents when the caller passed it
    calls,          \* how many times sort_colors has been applied
    order,          \* for each output position, the input position it holds
    segments,       \* lengths of reds, greens, blues, rests of the last call
    result,         \* what sort_colors returned
    resorted,       \* what sort_colors returned for its own result
    image,          \* the image passed to extract_colors
    ext_pc,         \* "ready", "returned" or "raised"
    clusters_num,   \* the cluster count requested from KMeans
    labels,         \* clt.labels_
    cluster_centers,\* clt.cluster_centers_
    hist,           \* what centerize_histogram returned
    color_histogram,\* the integer colours before sorting
    palette,        \* what extract_colors returned
    items,          \* the paths held by the items of image_list
    image_data_list,\* [pixmap, palette] per successfully added image
    current_row,    \* image_list.currentIndex().row(), -1 for none
    preview,        \* the pixmap on preview_image, "none" when cleared
    swatches,       \* the shapes on color_display
    ui_err,         \* the exception the last callback raised, or "none"
    last_op         \* the callback that ran last

sortVars == << color_list, arg_list, calls, order, segments, result, resorted >>

extVars == << image, ext_pc, clusters_num, labels, cluster_centers, hist,
             color_histogram, palette >>

uiVars == << items, image_data_list, current_row, preview, swatches, ui_err,
            last_op >>

vars == << sortVars, extVars, uiVars >>

SegLens(cl) == [b \in {"reds", "greens", "blues", "rests"} |-> Len(BucketOf(cl, b))]

SortIdle ==
    /\ color_list = <<>>
    /\ arg_list = <<>>
    /\ calls = 0
    /\ order = <<>>
    /\ segments = SegLens(<<>>)
    /\ result = <<>>
    /\ resorted = <<>>

ExtIdle ==
    /\ image = <<>>
    /\ ext_pc = "idle"
    /\ clusters_num = 0
    /\ labels = <<>>
    /\ cluster_centers = <<>>
    /\ hist = <<>>
    /\ color_histogram = <<>>
    /\ palette = <<>>

UIIdle ==
    /\ items = <<>>
    /\ image_data_list = <<>>
    /\ current_row = -1
    /\ preview = "none"
    /\ swatches = <<>>
    /\ ui_err = "none"
    /\ last_op = "init"

InitSort ==
    /\ ExtIdle
    /\ UIIdle
    /\ color_list \in SeqsUpTo(ColorSet, MaxLen)
    /\ arg_list = color_list
    /\ calls = 0
    /\ order = <<>>
    /\ segments = SegLens(<<>>)
    /\ result = <<>>
    /\ resorted = <<>>

SortColors ==
    /\ calls = 0
    /\ calls' = 1
    /\ order' = sort_order(color_list)
    /\ segments' = SegLens(color_list)
    /\ result' = sort_colors(color_list)
    /\ UNCHANGED << color_list, arg_list, resorted, extVars, uiVars >>

SortAgain ==
    /\ calls = 1
    /\ calls' = 2
    /\ resorted' = sort_colors(result)
    /\ UNCHANGED << color_list, arg_list, order, segments, result, extVars,
                    uiVars >>

NextSort == SortColors \/ SortAgain

SpecSort == InitSort /\ [][NextSort]_vars

----------------------------------------------------------------------------
(* extract_colors applied to an image.                                     *)

InitExtract ==
    /\ SortIdle
    /\ UIIdle
    /\ image \in Images
    /\ ext_pc = "ready"
    /\ clusters_num = 0
    /\ labels = <<>>
    /\ cluster_centers = <<>>
    /\ hist = <<>>
    /\ color_histogram = <<>>
    /\ palette = <<>>

\* extract_colors runs to its return statement
ExtractColors ==
    /\ ext_pc = "ready"
    /\ Len(image_2d(image)) >= ClustersNum(image)
    /\ \E fit \in FitResults(image_2d(image), ClustersNum(image)) :
          LET h == centerize_histogram(fit.labels_, ClustersNum(image))
              ch == ColorHistogram(h, fit.cluster_centers_)
          IN  /\ clusters_num' = ClustersNum(image)
              /\ labels' = fit.labels_
              /\ cluster_centers' = fit.cluster_centers_
              /\ hist' = h
              /\ color_histogram' = ch
              /\ palette' = ExtractResult(image, fit)
    /\ ext_pc' = "returned"
    /\ UNCHANGED << image, sortVars, uiVars >>

\* KMeans.fit raises ValueError when there are fewer pixels than clusters
ExtractColorsRaises ==
    /\ ext_pc = "ready"
    /\ Len(image_2d(image)) < ClustersNum(image)
    /\ clusters_num' = ClustersNum(image)
    /\ ext_pc' = "raised"
    /\ UNCHANGED << image, labels, cluster_centers, hist, color_histogram,
                    palette, sortVars, uiVars >>

NextExtract == ExtractColors \/ ExtractColorsRaises

SpecExtract == InitExtract /\ [][NextExtract]_vars

----------------------------------------------------------------------------
(* The callbacks registered on image_list and on the swatches.             *)

InitUI ==
    /\ SortIdle
    /\ ExtIdle
    /\ UIIdle

\* The user adds a file: the list appends the item and calls add_image,
\* which decodes the last item, extracts its colours and appends the pair.
AddImage(path) ==
    /\ Len(items) < MaxItems
    /\ items' = ItemsAfterAdd(items, path)
    /\ path \notin Unreadable
    /\ LET img == Decode(path) IN
         /\ Len(image_2d(img)) >= ClustersNum(img)
         /\ \E fit \in FitResults(image_2d(img), ClustersNum(img)) :
              image_data_list' =
                 Append(image_data_list,
                        [pixmap |-> path, palette |-> ExtractResult(img, fit)])
    /\ ui_err' = "none"
    /\ last_op' = "add"
    /\ UNCHANGED << current_row, preview, swatches, sortVars, extVars >>

\* add_image raises: cvtColor on an undecodable file, or KMeans.fit on an
\* image with fewer pixels than clusters.  Nothing catches the exception;
\* the item stays in the list and image_data_list is not appended to.
AddImageRaises(path) ==
    /\ Len(items) < MaxItems
    /\ items' = ItemsAfterAdd(items, path)
    /\ \/ path \in Unreadable /\ ui_err' = "cv2.error"
       \/ /\ path \notin Unreadable
          /\ Len(image_2d(Decode(path))) < ClustersNum(Decode(path))
          /\ ui_err' = "ValueError"
    /\ last_op' = "add"
    /\ UNCHANGED << image_data_list, current_row, preview, swatches, sortVars,
                    extVars >>

\* The selection changes to row and update_change runs.
UpdateChange(row) ==
    /\ row \in -1..(Len(items) - 1)
    /\ current_row' = row
    /\ last_op' = "select"
    /\ LET index == IF row >= Len(image_data_list) - 1
                    THEN Len(image_data_list) - 1 ELSE row
       IN  IF row = -1
           THEN /\ ui_err' = "none"
                /\ UNCHANGED << preview, swatches >>
           ELSE IF index = -1
           THEN /\ ui_err' = "IndexError"
                /\ UNCHANGED << preview, swatches >>
           ELSE /\ ui_err' = "none"
                /\ preview' = image_data_list[index + 1].pixmap
                /\ swatches' = Swatches(image_data_list[index + 1].palette)
    /\ UNCHANGED << items, image_data_list, sortVars, extVars >>

\* The user deletes the item at row index and delete_image(index) runs.
DeleteImage(index) ==
    /\ index \in 0..(Len(items) - 1)
    /\ items' = ItemsAfterDelete(items, index)
    /\ current_row' = RowAfterDelete(current_row, index, Len(items) - 1)
    /\ last_op' = "delete"
    /\ IF index >= Len(image_data_list)
       THEN /\ ui_err' = "IndexError"
            /\ UNCHANGED << image_data_list, preview, swatches >>
       ELSE /\ ui_err' = "none"
            /\ image_data_list' =
                 SubSeq(image_data_list, 1, index)
                   \o SubSeq(image_data_list, index + 2, Len(image_data_list))
            /\ IF Len(image_data_list) = 1
               THEN preview' = "none" /\ swatches' = <<>>
               ELSE UNCHANGED << preview, swatches >>
    /\ UNCHANGED << sortVars, extVars >>

NextUI ==
    \/ \E path \in Files : AddImage(path)
    \/ \E path \in Files : AddImageRaises(path)
    \/ \E row \in -1..(MaxItems - 1) : UpdateChange(row)
    \/ \E index \in 0..(MaxItems - 1) : DeleteImage(index)

SpecUI == InitUI /\ [][NextUI]_vars

----------------------------------------------------------------------------
(* The swatches of a displayed palette.                                    *)

\* update_color_pallet has just built the swatches of a palette
InitSwatch ==
    /\ SortIdle
    /\ ExtIdle
    /\ items = <<>>
    /\ image_data_list = <<>>
    /\ current_row = -1
    /\ preview = "none"
    /\ swatches \in {Swatches(cl) : cl \in SeqsUpTo(ColorSet, MaxSwatches) \ {<<>>}}
    /\ ui_err = "none"
    /\ last_op = "select"

\* mouse release on swatch i: copy_color
CopyColor(i) ==
    /\ i \in 1..Len(swatches)
    /\ Len(swatches[i].tip) <= Len(Str(swatches[i].color)) + MaxTipGrowth
    /\ swatches' =
         [swatches EXCEPT ![i] =
            [@ EXCEPT !.tip = IF ~Contains(@, CopiedDot)
                              THEN @ \o SpaceCopiedDot ELSE @]]
    /\ last_op' = "copy"
    /\ UNCHANGED << items, image_data_list, current_row, preview, ui_err,
                    sortVars, extVars >>

\* mouse leave on swatch i: reset_copy_message
ResetCopyMessage(i) ==
    /\ i \in 1..Len(swatches)
    /\ swatches' =
         [swatches EXCEPT ![i] =
            [@ EXCEPT !.tip = IF Contains(@, Copied) THEN DropLast(@, 7) ELSE @]]
    /\ last_op' = "leave"
    /\ UNCHANGED << items, image_data_list, current_row, preview, ui_err,
                    sortVars, extVars >>

NextSwatch ==
    \/ \E i \in 1..MaxSwatches : CopyColor(i)
    \/ \E i \in 1..MaxSwatches : ResetCopyMessage(i)

SpecSwatch == InitSwatch /\ [][NextSwatch]_vars

----------------------------------------------------------------------------
(* Properties of sort_colors (SpecSort).                                   *)

\* the segment an output position falls in, by the lengths of the buckets
SegOf(i) ==
    IF i <= segments["reds"] THEN "reds"
    ELSE IF i <= segments["reds"] + segments["greens"] THEN "greens"
    ELSE IF i <= segments["reds"] + segments["greens"] + segments["blues"]
         THEN "blues"
    ELSE "rests"

SameKey(c, d) == luminance(c) = luminance(d)

\* C5: the output of sort_colors is a red segment, a green segment, a blue
\* segment and a rest segment in that order; red colours have R >= G and
\* R >= B, green colours G >= B and G > R, blue colours B > R and B > G, and
\* the rest segment is empty.
C5_BucketSegments ==
    calls >= 1 =>
        /\ Len(result) = segments["reds"] + segments["greens"]
                           + segments["blues"] + segments["rests"]
        /\ segments["rests"] = 0
        /\ \A i \in 1..Len(result) :
             LET c == result[i] IN
               /\ SegOf(i) = "reds"   => c[1] >= c[2] /\ c[1] >= c[3]
               /\ SegOf(i) = "greens" => c[2] >= c[3] /\ c[2] > c[1]
               /\ SegOf(i) = "blues"  => c[3] > c[1] /\ c[3] > c[2]

C5_Witness ==
    /\ calls >= 1
    /\ segments["reds"] > 0 /\ segments["greens"] > 0 /\ segments["blues"] > 0
    /\ \E i \in 1..Len(result) : result[i][1] = result[i][2]
    /\ result # arg_list

C7_Permutation ==
    calls >= 1 =>
        /\ Len(result) = Len(arg_list)
        /\ \A c \in ColorSet : Count(c, result) = Count(c, arg_list)
        /\ \A i \in 1..Len(result) : result[i] \in ColorSet
        /\ color_list = arg_list

C7_Witness ==
    /\ calls >= 1
    /\ \E c \in ColorSet : Count(c, arg_list) >= 2
    /\ segments["blues"] > 0
    /\ result # arg_list

\* C8: sort_colors is idempotent: sorting its own output gives the same
\* sequence again.
C8_Idempotent == calls = 2 => resorted = result

C8_Witness ==
    /\ calls = 2
    /\ result # arg_list
    /\ \E i, j \in 1..Len(result) :
         i < j /\ SameKey(result[i], result[j]) /\ result[i] # result[j]

----------------------------------------------------------------------------
(* Properties of extract_colors (SpecExtract).                             *)

Abs(x) == IF x < 0 THEN -x ELSE x

\* the cluster count computed from the number of distinct pixel colours
ClustersNumOfColours(img) ==
    LET px == image_2d(img)
        n  == 5 + (Cardinality({px[i] : i \in 1..Len(px)}) \div 6)
    IN  IF n < 2 THEN 5 ELSE IF n > 24 THEN 24 ELSE n

LabelCount(c) == Cardinality({i \in 1..Len(labels) : labels[i] = c})

\* C1: for every image with at least one pixel and every labelling the
\* clusterer may return, extract_colors returns exactly K colours, one per
\* cluster centre.
C1_ExactlyKColours ==
    ext_pc = "returned" => Len(palette) = clusters_num

\* C2: the cluster count requested from the clusterer is
\* clamp(5 + floor(U / 6), 5, 24) with U the number of distinct pixel
\* colours of the image, whatever its width, height and row layout.
C2_ClusterCountFromColours ==
    ext_pc \in {"returned", "raised"} =>
        clusters_num = ClustersNumOfColours(image)

\* C3: centerize_histogram returns exactly K weights, weight[i] being the
\* number of pixels labelled i divided by the number of pixels; a cluster
\* without pixels gets weight 0 and the weights sum to 1.
C3_HistogramWeights ==
    ext_pc = "returned" =>
        /\ Len(hist) = clusters_num
        /\ \A b \in 1..Len(hist) :
             /\ hist[b][2] # 0
             /\ hist[b][1] * Len(labels) = LabelCount(b - 1) * hist[b][2]

\* the palette holds the colours of color_histogram, each as often
PaletteOfHistogram ==
    /\ Len(palette) = Len(color_histogram)
    /\ \A i \in 1..Len(palette) :
         Count(palette[i], palette) = Count(palette[i], color_histogram)

\* C4 as claimed: each channel of each returned colour is the centroid
\* channel of its cluster rounded to the nearest integer.
C4_RoundedToNearest ==
    ext_pc = "returned" =>
        /\ PaletteOfHistogram
        /\ \A i \in 1..Len(color_histogram) : \A ch \in 1..3 :
             2 * Abs(color_histogram[i][ch] * cluster_centers[i].n
                       - cluster_centers[i].sum[ch]) <= cluster_centers[i].n

\* C4 as amended: each channel of each returned colour is the centre
\* channel of its cluster with the fraction cut off (the largest integer
\* not above it); a centre channel of 124.8 is output as 124.
C4_Truncated ==
    ext_pc = "returned" =>
        /\ PaletteOfHistogram
        /\ \A i \in 1..Len(color_histogram) : \A ch \in 1..3 :
             LET v == color_histogram[i][ch]
                 c == cluster_centers[i]
             IN  v * c.n <= c.sum[ch] /\ c.sum[ch] < (v + 1) * c.n

C4_Witness ==
    /\ ext_pc = "returned"
    /\ Len(palette) >= 2
    /\ \E i \in 1..Len(color_histogram) : \E ch \in 1..3 :
         2 * (cluster_centers[i].sum[ch] % cluster_centers[i].n)
            > cluster_centers[i].n

----------------------------------------------------------------------------
(* Properties of the list callbacks (SpecUI) and of the swatches           *)
(* (SpecSwatch).                                                           *)

\* C9: after any sequence of additions, deletions and selection changes,
\* image_data_list holds one [image, palette] entry per item of the image
\* list, in the same order; update_change shows the entry of the selected
\* item and never indexes outside image_data_list.
C9_ListPaired ==
    /\ Len(image_data_list) = Len(items)
    /\ \A i \in 1..Len(items) :
         i <= Len(image_data_list) => image_data_list[i].pixmap = items[i]
    /\ ui_err # "IndexError"
    /\ (last_op = "select" /\ current_row # -1) =>
          preview = items[current_row + 1]

\* C10: whatever copy_color and reset_copy_message events a swatch gets,
\* its tooltip is the text T it was built with or T followed by
\* " copied."; a copy followed by a leave gives T back and the tooltip
\* never grows.
C10_TooltipRestored ==
    \A i \in 1..Len(swatches) :
        LET T == Str(swatches[i].color)
        IN  swatches[i].tip = T \/ swatches[i].tip = T \o SpaceCopiedDot

====
